---- MODULE Spec2Model ----
(***************************************************************************)
(* A model of the SwingTrading indicator table (src/SwingTrading.py).      *)
(*                                                                         *)
(* The state is the DataFrame self.data: a mapping from column names to    *)
(* columns, each column a sequence holding one cell per bar.  Row i of the *)
(* source (0-based) is position i+1 of a column here.  Every add_* method  *)
(* is one action that writes its columns in the order of its assignments.  *)
(*                                                                         *)
(* A numeric cell is a pair <<n, d>>: the rational n/d in lowest terms     *)
(* when d > 0, and the IEEE specials when d = 0 (<<0,0>> is NaN, the       *)
(* "undefined" marker; <<1,0>> and <<-1,0>> are +inf and -inf).  Floating  *)
(* point rounding is not modelled: finite arithmetic is exact.             *)
(***************************************************************************)
EXTENDS Integers, Sequences, FiniteSets, TLC

VARIABLES data, last, raised, calls

vars == <<data, last, raised, calls>>

(***************************************************************************)
(* Bounds of the model.                                                    *)
(***************************************************************************)
MaxPrice == 2
MaxVolume == 2
MaxRows == 1
MaxRowsMA == 6
MaxRowsRoll == 3
MaxRowsOBV == 4
MaxForward == 3
MaxCalls == 2
MaxRowsEWM == 2
MaxPriceEWM == 8
MaxPeriod == 2
MaxRowsScale == 3
MaxPriceScale == 3
MaxRowsLabel == 5
RampRows == 25
MaxRowsRSI == 15
MaxRowsADX == 4
MaxRowsRange == 2
LongSeeds == 2
MaxRowsHist == 10
MaxRowsAhead == 12
MaxRowsDeps == 2

\* Program constants.
Lookback == 3
RsiWindow == 14
AdxPeriod == 14

(***************************************************************************)
(* Float arithmetic on cells.                                              *)
(***************************************************************************)
NaN == <<0, 0>>

PosInf == <<1, 0>>

NegInf == <<-1, 0>>

R(n) == <<n, 1>>

IsNaN(x) == x = NaN

IsFinite(x) == x[2] > 0

Abs(n) == IF n < 0 THEN -n ELSE n

Sign(n) == IF n > 0 THEN 1 ELSE IF n < 0 THEN -1 ELSE 0

RECURSIVE Gcd(_, _)
Gcd(a, b) == IF b = 0 THEN a ELSE Gcd(b, a % b)

Norm(n, d) ==
  IF d = 0 THEN <<Sign(n), 0>>
  ELSE IF d = 1 THEN <<n, 1>>
  ELSE LET g == Gcd(Abs(n), Abs(d))
           s == IF d < 0 THEN -1 ELSE 1
       IN <<(s * n) \div g, (s * d) \div g>>

RNeg(x) == <<-x[1], x[2]>>

RAdd(x, y) ==
  IF IsNaN(x) \/ IsNaN(y) THEN NaN
  ELSE IF ~IsFinite(x) THEN (IF ~IsFinite(y) /\ y # x THEN NaN ELSE x)
  ELSE IF ~IsFinite(y) THEN y
  ELSE IF x[2] = y[2] THEN Norm(x[1] + y[1], x[2])
  ELSE LET g == Gcd(x[2], y[2])
       IN Norm(x[1] * (y[2] \div g) + y[1] * (x[2] \div g), (x[2] \div g) * y[2])

RSub(x, y) == RAdd(x, RNeg(y))

RMul(x, y) ==
  IF IsNaN(x) \/ IsNaN(y) THEN NaN
  ELSE IF ~IsFinite(x) \/ ~IsFinite(y)
       THEN (IF x[1] = 0 \/ y[1] = 0 THEN NaN ELSE <<Sign(x[1]) * Sign(y[1]), 0>>)
  ELSE LET g1 == Gcd(Abs(x[1]), y[2])
           g2 == Gcd(Abs(y[1]), x[2])
       IN Norm((x[1] \div g1) * (y[1] \div g2), (x[2] \div g2) * (y[2] \div g1))

RDiv(x, y) ==
  IF IsNaN(x) \/ IsNaN(y) THEN NaN
  ELSE IF ~IsFinite(y) THEN (IF IsFinite(x) THEN R(0) ELSE NaN)
  ELSE IF ~IsFinite(x) THEN <<x[1] * (IF y[1] < 0 THEN -1 ELSE 1), 0>>
  ELSE IF y[1] = 0 THEN <<Sign(x[1]), 0>>
  ELSE RMul(x, Norm(y[2], y[1]))

\* x < y on floats: false whenever an operand is NaN.
RLt(x, y) ==
  IF IsNaN(x) \/ IsNaN(y) THEN FALSE
  ELSE IF ~IsFinite(x) THEN x = NegInf /\ y # NegInf
  ELSE IF ~IsFinite(y) THEN y = PosInf
  ELSE x[1] * y[2] < y[1] * x[2]

RGt(x, y) == RLt(y, x)

\* x == y on floats: NaN equals nothing, itself included.
REq(x, y) == ~IsNaN(x) /\ ~IsNaN(y) /\ x = y

(***************************************************************************)
(* The table.                                                              *)
(***************************************************************************)
BarColumns == {"Date", "Open", "High", "Low", "Close", "Volume"}

Ints(s) == [i \in 1..Len(s) |-> R(s[i])]

\* The table returned by get_data: one row per bar, a RangeIndex 0..N-1
\* after reset_index, the timestamps ascending.
BarTable(op, hi, lo, cl, vo) ==
  [c \in BarColumns |->
     CASE c = "Date" -> [i \in 1..Len(cl) |-> R(i)]
       [] c = "Open" -> Ints(op)
       [] c = "High" -> Ints(hi)
       [] c = "Low" -> Ints(lo)
       [] c = "Close" -> Ints(cl)
       [] c = "Volume" -> Ints(vo)]

NRows == Len(data["Date"])

Has(c) == c \in DOMAIN data

\* self.data[name] = col: adds the column, or replaces the one of that name.
SetCol(t, name, col) == (name :> col) @@ t

Const(n, v) == [i \in 1..n |-> v]

\* The most recent call: the method and its argument (0 when it has none).
Call(op, arg) == [op |-> op, arg |-> arg]

\* One more call on the object: calls is the history of the calls made after
\* get_data, kept by the specification of the whole program, where a run
\* makes at most MaxCalls of them; the specifications of single methods
\* leave it empty.
Tick == Len(calls) < MaxCalls /\ calls' = Append(calls, last')

(***************************************************************************)
(* Series.rolling(w): pandas keeps a running sum and a count of the        *)
(* non-NaN observations of the trailing window, adding the entering row    *)
(* and removing the row that leaves; min_periods defaults to w, so the     *)
(* result is NaN until the window holds w observations.                    *)
(***************************************************************************)
RollStep(C, w, acc, j) ==
  LET p == IF j = 1 THEN <<R(0), 0>> ELSE acc[j - 1]
      a == IF IsNaN(C[j]) THEN p ELSE <<RAdd(p[1], C[j]), p[2] + 1>>
  IN IF j > w /\ ~IsNaN(C[j - w])
     THEN <<RSub(a[1], C[j - w]), a[2] - 1>>
     ELSE a

\* The rows lo..hi taken in index order, after the rows before lo (acc).  The
\* range is halved, and the first half computed before the second is entered,
\* only to keep the evaluation shallow.
RECURSIVE RollAccs(_, _, _, _, _)
RollAccs(C, w, acc, lo, hi) ==
  IF lo > hi THEN acc
  ELSE IF lo = hi THEN Append(acc, RollStep(C, w, acc, lo))
  ELSE LET mid == (lo + hi) \div 2
           left == RollAccs(C, w, acc, lo, mid)
       IN IF Len(left) = mid THEN RollAccs(C, w, left, mid + 1, hi) ELSE <<>>

RollingMeanMinPeriods1(C, w) ==
  LET acc == RollAccs(C, w, <<>>, 1, Len(C))
  IN [j \in 1..Len(C) |->
        IF acc[j][2] >= 1 THEN RDiv(acc[j][1], R(acc[j][2])) ELSE NaN]

RollingMean(C, w) ==
  LET acc == RollAccs(C, w, <<>>, 1, Len(C))
  IN [j \in 1..Len(C) |->
        IF acc[j][2] >= w THEN RDiv(acc[j][1], R(acc[j][2])) ELSE NaN]

(***************************************************************************)
(* add_moving_averages                                                     *)
(***************************************************************************)
MAWindows == {5, 10, 20, 50, 100, 200}

MAName(w) == "MA_" \o ToString(w)

add_moving_averages ==
  /\ last' = Call("add_moving_averages", 0)
  /\ IF Has("Close")
     THEN LET t1 == SetCol(data, "MA_5", RollingMean(data["Close"], 5))
              t2 == SetCol(t1, "MA_10", RollingMean(t1["Close"], 10))
              t3 == SetCol(t2, "MA_20", RollingMean(t2["Close"], 20))
              t4 == SetCol(t3, "MA_50", RollingMean(t3["Close"], 50))
              t5 == SetCol(t4, "MA_100", RollingMean(t4["Close"], 100))
              t6 == SetCol(t5, "MA_200", RollingMean(t5["Close"], 200))
          IN data' = t6 /\ raised' = FALSE
     ELSE raised' = TRUE /\ UNCHANGED data

(***************************************************************************)
(* Tables of closes for the moving averages: every table of at most        *)
(* MaxRowsMA rows over the prices 1..MaxPrice, and for each window beyond  *)
(* the shortest a table one row longer than the window.                    *)
(***************************************************************************)
LongLens == {w + 1 : w \in MAWindows \ {5}}

LongClose(n, s) == [i \in 1..n |-> 1 + ((s * i + (i \div 3)) % (MaxPrice + 1))]

CloseTable(cl) == BarTable(cl, cl, cl, cl, Const(Len(cl), 1))

InitMA ==
  /\ last = Call("get_data", 0)
  /\ raised = FALSE
  /\ calls = <<>>
  /\ \/ \E n \in 0..MaxRowsMA : \E cl \in [1..n -> 1..MaxPrice] :
          data = CloseTable(cl)
     \/ \E n \in LongLens : \E s \in 1..LongSeeds :
          data = CloseTable(LongClose(n, s))

NextMA == add_moving_averages /\ UNCHANGED calls

SpecMA == InitMA /\ [][NextMA]_vars

(***************************************************************************)
(* C1: after add_moving_averages, for every window w of {5, 10, 20, 50,    *)
(* 100, 200} and every row i, MA_w[i] is undefined when i < w-1 and is     *)
(* otherwise the arithmetic mean of the w closes Close[i-w+1..i], as a     *)
(* re-scan of that window gives it.                                        *)
(***************************************************************************)
RECURSIVE ScanSum(_, _, _)
ScanSum(C, lo, hi) ==
  IF hi < lo THEN 0
  ELSE IF lo = hi THEN C[lo][1]
  ELSE LET mid == (lo + hi) \div 2
       IN ScanSum(C, lo, mid) + ScanSum(C, mid + 1, hi)

MovingAveragesDone == last.op = "add_moving_averages" /\ ~raised

C1_MovingAverageIsWindowMean ==
  MovingAveragesDone =>
    \A w \in MAWindows : \A i \in 0..(NRows - 1) :
      IF i < w - 1
      THEN IsNaN(data[MAName(w)][i + 1])
      ELSE data[MAName(w)][i + 1] = Norm(ScanSum(data["Close"], i - w + 2, i + 1), w)

C1_Witness ==
  /\ MovingAveragesDone
  /\ NRows > 200
  /\ IsFinite(data["MA_200"][NRows])
  /\ IsFinite(data["MA_5"][5])
  /\ IsNaN(data["MA_5"][4])
  /\ data["MA_5"][NRows] # data["MA_5"][NRows - 1]

(***************************************************************************)
(* add_rolling_columns(rows_forward)                                       *)
(***************************************************************************)
Window(C, lo, hi) == [k \in 1..(hi - lo + 1) |-> C[lo + k - 1]]

HasNaN(W) == \E k \in 1..Len(W) : IsNaN(W[k])

\* Python's max(x) and min(x): the items in order, the first extreme one kept.
RECURSIVE PyMax(_, _)
PyMax(W, k) ==
  IF k = 1 THEN W[1]
  ELSE LET best == PyMax(W, k - 1) IN IF RGt(W[k], best) THEN W[k] ELSE best

RECURSIVE PyMin(_, _)
PyMin(W, k) ==
  IF k = 1 THEN W[1]
  ELSE LET best == PyMin(W, k - 1) IN IF RLt(W[k], best) THEN W[k] ELSE best

\* list(x).index(v): the 0-based position of the first item equal to v.
PyIndexLast(W, v, k) ==
  (CHOOSE m \in 1..Len(W) : REq(W[m], v) /\ \A q \in (m + 1)..Len(W) : ~REq(W[q], v)) - 1

RECURSIVE PyIndex(_, _, _)
PyIndex(W, v, k) == IF REq(W[k], v) THEN k - 1 ELSE PyIndex(W, v, k + 1)

\* Series.rolling(n).max() and .min(): NaN until the window holds n values.
RollingMaxShortWindow(C, n) ==
  [j \in 1..Len(C) |->
     IF j < n \/ HasNaN(Window(C, j - n + 1, j)) THEN NaN
     ELSE IF n = 1 THEN C[j]
     ELSE PyMax(Window(C, j - n + 2, j), n - 1)]

RollingMax(C, n) ==
  [j \in 1..Len(C) |->
     IF j < n \/ HasNaN(Window(C, j - n + 1, j)) THEN NaN
     ELSE PyMax(Window(C, j - n + 1, j), n)]

RollingMin(C, n) ==
  [j \in 1..Len(C) |->
     IF j < n \/ HasNaN(Window(C, j - n + 1, j)) THEN NaN
     ELSE PyMin(Window(C, j - n + 1, j), n)]

\* Series.rolling(n).apply(lambda x: list(x).index(max(x))+1), and with min.
RollingArgMax(C, n) ==
  [j \in 1..Len(C) |->
     IF j < n \/ HasNaN(Window(C, j - n + 1, j)) THEN NaN
     ELSE LET W == Window(C, j - n + 1, j) IN R(PyIndex(W, PyMax(W, n), 1) + 1)]

RollingArgMin(C, n) ==
  [j \in 1..Len(C) |->
     IF j < n \/ HasNaN(Window(C, j - n + 1, j)) THEN NaN
     ELSE LET W == Window(C, j - n + 1, j) IN R(PyIndex(W, PyMin(W, n), 1) + 1)]

\* list(col)[n:] + [np.nan]*n
ForwardNoShift(col, n) ==
  (IF n - 1 >= Len(col) THEN <<>> ELSE SubSeq(col, n, Len(col))) \o Const(n - 1, NaN)

Forward(col, n) ==
  (IF n >= Len(col) THEN <<>> ELSE SubSeq(col, n + 1, Len(col))) \o Const(n, NaN)

\* np.where(max_lag > min_lag, 'UpTrend',
\*          np.where(min_lag > max_lag, 'DownTrend', 'NoTrend'))
TrendLabel(hf, lf) ==
  [j \in 1..Len(hf) |->
     IF RGt(hf[j], lf[j]) THEN "UpTrend"
     ELSE IF RGt(lf[j], hf[j]) THEN "DownTrend"
     ELSE "NoTrend"]

HighN(n) == "High_" \o ToString(n)

HighForwardN(n) == "High_forward_" \o ToString(n)

LowN(n) == "Low_" \o ToString(n)

LowForwardN(n) == "Low_forward_" \o ToString(n)

HighLowForwardN(n) == "High_Low_forward_" \o ToString(n)

\* The columns of text labels.
LabelColumns == {"Label"} \cup {HighLowForwardN(n) : n \in 1..MaxForward}

\* Assigning a list to a column of a table without rows gives the table the
\* rows of the list: every column it has becomes undefined on each of them
\* (nan in a column of labels).
Reindexed(t, n) ==
  [c \in DOMAIN t |-> Const(n, IF c \in LabelColumns THEN "nan" ELSE NaN)]

\* Assigning a list whose length is not the number of rows raises ValueError;
\* the first assignment (line 76) is where that happens, before any column
\* has been written.  The lists of the highs are built before it, those of
\* the lows after it.
add_rolling_columns(n) ==
  /\ last' = Call("add_rolling_columns", n)
  /\ IF Has("High") /\ Has("Low")
     THEN LET rolling_max == Forward(RollingMax(data["High"], n), n)
              max_lag == Forward(RollingArgMax(data["High"], n), n)
              t0 == IF NRows = 0 THEN Reindexed(data, n) ELSE data
              rolling_min == Forward(RollingMin(t0["Low"], n), n)
              min_lag == Forward(RollingArgMin(t0["Low"], n), n)
              t1 == SetCol(t0, HighN(n), rolling_max)
              t2 == SetCol(t1, HighForwardN(n), max_lag)
              t3 == SetCol(t2, LowN(n), rolling_min)
              t4 == SetCol(t3, LowForwardN(n), min_lag)
              t5 == SetCol(t4, HighLowForwardN(n),
                           TrendLabel(t4[HighForwardN(n)], t4[LowForwardN(n)]))
          IN IF Len(rolling_max) = Len(t0["Date"])
             THEN data' = t5 /\ raised' = FALSE
             ELSE raised' = TRUE /\ UNCHANGED data
     ELSE raised' = TRUE /\ UNCHANGED data

(***************************************************************************)
(* Tables of highs and lows: every table of at most MaxRowsRoll rows with  *)
(* 1 <= Low <= High <= MaxPrice on every bar.                              *)
(***************************************************************************)
HighLowTable(hi, lo) == BarTable(lo, hi, lo, hi, Const(Len(hi), 1))

InitRoll ==
  /\ last = Call("get_data", 0)
  /\ raised = FALSE
  /\ calls = <<>>
  /\ \E n \in 0..MaxRowsRoll :
       \E hi \in [1..n -> 1..MaxPrice] : \E lo \in [1..n -> 1..MaxPrice] :
          /\ \A i \in 1..n : lo[i] <= hi[i]
          /\ data = HighLowTable(hi, lo)

NextRoll == (\E n \in 1..MaxForward : add_rolling_columns(n)) /\ UNCHANGED calls

SpecRoll == InitRoll /\ [][NextRoll]_vars

Forwards == {n \in 1..MaxForward : Has(HighN(n))}

Row(c, i) == data[c][i + 1]

Rows == 0..(NRows - 1)

(***************************************************************************)
(* C3, as stated: wherever High_n and Low_n are defined, High_n[i] is the  *)
(* maximum of High[i..i+n-1] and Low_n[i] the minimum of Low[i..i+n-1]     *)
(* (the forward window starts at the current row).                         *)
(***************************************************************************)
IsMaxOf(v, C, lo, hi) ==
  /\ \E k \in lo..hi : C[k] = v
  /\ \A k \in lo..hi : ~RGt(C[k], v)

IsMinOf(v, C, lo, hi) ==
  /\ \E k \in lo..hi : C[k] = v
  /\ \A k \in lo..hi : ~RLt(C[k], v)

FirstAt(C, v, i, k, n, shift) ==
  /\ 1 <= k /\ k <= n
  /\ i + k + shift <= Len(C)
  /\ C[i + k + shift] = v
  /\ \A q \in 1..(k - 1) : C[i + q + shift] # v

ForwardColumns(n) == {HighN(n), HighForwardN(n), LowN(n), LowForwardN(n)}

HighLowDefined ==
  \A i \in Rows : ~IsNaN(Row("High", i)) /\ ~IsNaN(Row("Low", i))

C5_LastRowsUndefined ==
  HighLowDefined =>
    \A n \in Forwards : \A i \in Rows : \A c \in ForwardColumns(n) :
      IsNaN(Row(c, i)) <=> i >= NRows - n

C5_Witness ==
  \E n \in Forwards :
    /\ last = Call("add_rolling_columns", n) /\ ~raised
    /\ n >= 2
    /\ NRows > n
    /\ IsNaN(Row(HighN(n), NRows - n))
    /\ ~IsNaN(Row(HighN(n), NRows - n - 1))

(***************************************************************************)
(* C6: for every row the label High_Low_forward_n is 'UpTrend' if          *)
(* High_forward_n exceeds Low_forward_n, 'DownTrend' if Low_forward_n      *)
(* exceeds High_forward_n, and 'NoTrend' only when both offsets exist and  *)
(* are equal.                                                              *)
(***************************************************************************)
C6_NoTrendOnlyWhenOffsetsEqual ==
  \A n \in Forwards : \A i \in Rows :
    LET hf == Row(HighForwardN(n), i)
        lf == Row(LowForwardN(n), i)
        label == Row(HighLowForwardN(n), i)
    IN /\ RGt(hf, lf) => label = "UpTrend"
       /\ RGt(lf, hf) => label = "DownTrend"
       /\ label = "NoTrend" => ~IsNaN(hf) /\ ~IsNaN(lf) /\ hf = lf

(***************************************************************************)
(* add_on_balance_volume: the definition in effect, the second of the two  *)
(* in the class body (the first, lines 249-269, is replaced by it).        *)
(***************************************************************************)
\* Series.shift(1)
Shift1(C) == [j \in 1..Len(C) |-> IF j = 1 THEN NaN ELSE C[j - 1]]

\* Series.cumsum(): NaN cells are skipped by the running sum and stay NaN.
RECURSIVE CumSumAt(_, _)
CumSumAt(C, j) ==
  IF j = 0 THEN R(0)
  ELSE IF IsNaN(C[j]) THEN CumSumAt(C, j - 1)
  ELSE RAdd(CumSumAt(C, j - 1), C[j])

CumSum(C) == [j \in 1..Len(C) |-> IF IsNaN(C[j]) THEN NaN ELSE CumSumAt(C, j)]

\* np.where(Close > Close.shift(1), Volume, -Volume)
ObvChange(close, volume) ==
  [j \in 1..Len(close) |->
     IF RGt(close[j], Shift1(close)[j]) THEN volume[j] ELSE RNeg(volume[j])]

add_on_balance_volume ==
  /\ last' = Call("add_on_balance_volume", 0)
  /\ IF Has("Close") /\ Has("Volume")
     THEN LET t1 == SetCol(data, "OBV_Change", ObvChange(data["Close"], data["Volume"]))
              t2 == SetCol(t1, "On-Balance_Volume", CumSum(t1["OBV_Change"]))
          IN data' = t2 /\ raised' = FALSE
     ELSE raised' = TRUE /\ UNCHANGED data

(***************************************************************************)
(* add_OBV                                                                 *)
(***************************************************************************)
ObvStepNoHold(t, obv, j) ==
  IF RGt(t["Close"][j], t["Close"][j - 1])
  THEN RAdd(obv[j - 1], t["Volume"][j])
  ELSE RSub(obv[j - 1], t["Volume"][j])

\* The body of the loop at row j-1 (position j), reading the OBV of the row
\* before as the loop has left it.
ObvStep(t, obv, j) ==
  IF RGt(t["Close"][j], t["Close"][j - 1])
  THEN RAdd(obv[j - 1], t["Volume"][j])
  ELSE IF RLt(t["Close"][j], t["Close"][j - 1])
  THEN RSub(obv[j - 1], t["Volume"][j])
  ELSE obv[j - 1]

\* for i in range(1, len(self.data)): <<the OBV column, whether a column
\* that a row needs is missing (KeyError)>>; the rows before the fault keep
\* what the loop wrote.
RECURSIVE ObvLoop(_, _, _)
ObvLoop(t, obv, j) ==
  IF j > Len(obv) THEN <<obv, FALSE>>
  ELSE IF "Close" \notin DOMAIN t THEN <<obv, TRUE>>
  ELSE IF t["Close"][j] # t["Close"][j - 1] /\ "Volume" \notin DOMAIN t THEN <<obv, TRUE>>
  ELSE ObvLoop(t, [obv EXCEPT ![j] = ObvStep(t, obv, j)], j + 1)

add_OBV ==
  /\ last' = Call("add_OBV", 0)
  /\ LET t1 == SetCol(data, "OBV", Const(NRows, R(0)))
         run == ObvLoop(t1, t1["OBV"], 2)
     IN /\ data' = SetCol(t1, "OBV", run[1])
        /\ raised' = run[2]

(***************************************************************************)
(* Tables of closes and volumes: every table of at most MaxRowsOBV rows    *)
(* with closes in 1..MaxPrice and volumes in 1..MaxVolume.                 *)
(***************************************************************************)
CloseVolumeTable(cl, vo) == BarTable(cl, cl, cl, cl, vo)

InitOBV ==
  /\ last = Call("get_data", 0)
  /\ raised = FALSE
  /\ calls = <<>>
  /\ \E n \in 0..MaxRowsOBV :
       \E cl \in [1..n -> 1..MaxPrice] : \E vo \in [1..n -> 1..MaxVolume] :
          data = CloseVolumeTable(cl, vo)

NextOBV ==
  \/ add_on_balance_volume /\ UNCHANGED calls
  \/ add_OBV /\ UNCHANGED calls

SpecOBV == InitOBV /\ [][NextOBV]_vars

(***************************************************************************)
(* C7: after add_on_balance_volume (the definition in effect), with every  *)
(* Volume > 0, for all i > 0 the step On-Balance_Volume[i] -               *)
(* On-Balance_Volume[i-1] is positive if Close[i] > Close[i-1], negative   *)
(* if Close[i] < Close[i-1], and zero if Close[i] = Close[i-1].            *)
(***************************************************************************)
Step(c, i) == RSub(Row(c, i), Row(c, i - 1))

C7_OnBalanceVolumeStepSign ==
  Has("On-Balance_Volume") =>
    \A i \in 1..(NRows - 1) :
      /\ RGt(Row("Close", i), Row("Close", i - 1)) => RGt(Step("On-Balance_Volume", i), R(0))
      /\ RLt(Row("Close", i), Row("Close", i - 1)) => RLt(Step("On-Balance_Volume", i), R(0))
      /\ Row("Close", i) = Row("Close", i - 1) => Step("On-Balance_Volume", i) = R(0)

(***************************************************************************)
(* C8: after add_OBV, with every Volume > 0 and all closes defined, for    *)
(* all i > 0: OBV[i] = OBV[i-1] + Volume[i] if Close[i] > Close[i-1],      *)
(* OBV[i-1] - Volume[i] if Close[i] < Close[i-1], and OBV[i-1] if equal;   *)
(* so OBV[i] - OBV[i-1] has exactly the sign of Close[i] - Close[i-1].     *)
(***************************************************************************)
SignOf(x) == Sign(x[1])

C8_OBVRecurrence ==
  (last.op = "add_OBV" /\ ~raised) =>
    \A i \in 1..(NRows - 1) :
      /\ RGt(Row("Close", i), Row("Close", i - 1)) =>
           Row("OBV", i) = RAdd(Row("OBV", i - 1), Row("Volume", i))
      /\ RLt(Row("Close", i), Row("Close", i - 1)) =>
           Row("OBV", i) = RSub(Row("OBV", i - 1), Row("Volume", i))
      /\ Row("Close", i) = Row("Close", i - 1) => Row("OBV", i) = Row("OBV", i - 1)
      /\ SignOf(Step("OBV", i)) = SignOf(Step("Close", i))

\* A rise, a hold and a fall, in one table.
C8_Witness ==
  /\ last.op = "add_OBV" /\ ~raised
  /\ \E i \in 1..(NRows - 1) : SignOf(Step("OBV", i)) = 1
  /\ \E i \in 1..(NRows - 1) : SignOf(Step("OBV", i)) = 0
  /\ \E i \in 1..(NRows - 1) : SignOf(Step("OBV", i)) = -1

(***************************************************************************)
(* C9: in both callable on-balance-volume transforms the running state at  *)
(* row 0 is seeded from the first bar: OBV[0] after add_OBV equals         *)
(* Volume[0], and On-Balance_Volume[0] after add_on_balance_volume equals  *)
(* Volume[0].                                                              *)
(***************************************************************************)
C9_SeededFromFirstBar ==
  NRows > 0 =>
    /\ (last.op = "add_OBV" /\ ~raised) => Row("OBV", 0) = Row("Volume", 0)
    /\ Has("On-Balance_Volume") => Row("On-Balance_Volume", 0) = Row("Volume", 0)

(***************************************************************************)
(* add_Candlestick_Pattern_Analysis                                        *)
(*                                                                         *)
(* A condition of the if/elif chain is a conjunction of comparisons, each  *)
(* (x[i-dx] - xs[i]) op (y[i-dy] - ys[i]) with the subtrahends optional.   *)
(* Python evaluates the conjuncts left to right and stops at the first     *)
(* false one; self.data[col][j] looks the label j up in the RangeIndex and *)
(* raises KeyError when j is negative (or the column is absent).           *)
(***************************************************************************)
A(x, dx, op, y, dy) == [x |-> x, dx |-> dx, xs |-> "", op |-> op, y |-> y, dy |-> dy, ys |-> ""]

Dif(x, xs, op, y, ys) == [x |-> x, dx |-> 0, xs |-> xs, op |-> op, y |-> y, dy |-> 0, ys |-> ys]

Patterns == <<
  [name |-> "Bullish_Engulfing",
   conj |-> <<A("Open", 0, ">", "Close", 1), A("Close", 0, ">", "Open", 1)>>],
  [name |-> "Bearish_Engulfing",
   conj |-> <<A("Open", 0, "<", "Close", 1), A("Close", 0, "<", "Open", 1)>>],
  [name |-> "Hammer",
   conj |-> <<A("Low", 0, "==", "Open", 0), A("Low", 0, "<", "Close", 0),
              Dif("Close", "Low", ">", "High", "Close")>>],
  [name |-> "Shooting_Star",
   conj |-> <<A("High", 0, "==", "Open", 0), A("High", 0, ">", "Close", 0),
              Dif("High", "Open", ">", "Close", "Low")>>],
  [name |-> "Doji",
   conj |-> <<A("Open", 0, "==", "Close", 0)>>],
  [name |-> "Harami",
   conj |-> <<A("Open", 0, ">", "Close", 1), A("Open", 0, ">", "Close", 0),
              A("Close", 1, ">", "Open", 0)>>],
  [name |-> "Hanging_Man",
   conj |-> <<A("High", 0, "==", "Open", 0), A("High", 0, ">", "Close", 0),
              Dif("High", "Open", "<", "Close", "Low")>>],
  [name |-> "Inverted_Hammer",
   conj |-> <<A("Low", 0, "==", "Open", 0), A("Low", 0, "<", "Close", 0),
              Dif("Close", "Low", "<", "High", "Close")>>],
  [name |-> "Tweezer_Bottom",
   conj |-> <<A("Low", 0, ">", "Low", 1), A("High", 0, "<", "High", 1),
              A("Open", 0, ">", "Close", 1)>>],
  [name |-> "Tweezer_Top",
   conj |-> <<A("High", 0, ">", "High", 1), A("Low", 0, "<", "Low", 1),
              A("Open", 0, "<", "Close", 1)>>],
  [name |-> "Bullish_Three_Line_Strike",
   conj |-> <<A("Close", 0, ">", "Open", 0), A("Close", 0, ">", "Close", 1),
              A("Close", 1, ">", "Close", 2), A("Close", 2, ">", "Close", 3)>>],
  [name |-> "Bearish_Three_Line_Strike",
   conj |-> <<A("Close", 0, "<", "Open", 0), A("Close", 0, "<", "Close", 1),
              A("Close", 1, "<", "Close", 2), A("Close", 2, "<", "Close", 3)>>],
  [name |-> "Bullish_Abandoned_Baby",
   conj |-> <<A("Close", 0, ">", "Open", 0), A("Open", 0, "<", "Close", 1),
              A("Close", 2, ">", "Open", 2), A("Open", 2, ">", "Close", 1),
              A("Close", 0, ">", "Close", 2)>>],
  [name |-> "Bearish_Abandoned_Baby",
   conj |-> <<A("Close", 0, "<", "Open", 0), A("Open", 0, ">", "Close", 1),
              A("Close", 2, "<", "Open", 2), A("Open", 2, "<", "Close", 1),
              A("Close", 0, "<", "Close", 2)>>],
  [name |-> "Bullish_Kicker",
   conj |-> <<A("Open", 0, "<", "Close", 1), A("Close", 0, ">", "Open", 0),
              A("Open", 0, "<", "Close", 2), A("Close", 2, "<", "Open", 1)>>],
  [name |-> "Bearish_Kicker",
   conj |-> <<A("Open", 0, ">", "Close", 1), A("Close", 0, "<", "Open", 0),
              A("Open", 0, ">", "Close", 2), A("Close", 2, ">", "Open", 1)>>],
  [name |-> "Bullish_Kick_Backs",
   conj |-> <<A("Open", 0, "<", "Close", 1), A("Close", 0, ">", "Open", 0),
              A("Open", 0, ">", "Close", 2), A("Close", 2, ">", "Open", 1)>>],
  [name |-> "Bearish_Kick_Backs",
   conj |-> <<A("Open", 0, ">", "Close", 1), A("Close", 0, "<", "Open", 0),
              A("Open", 0, "<", "Close", 2), A("Close", 2, "<", "Open", 1)>>],
  [name |-> "Bullish_Harami_Cross",
   conj |-> <<A("Open", 0, ">", "Close", 1), A("Close", 0, ">", "Open", 0),
              A("Open", 0, "<", "Close", 2), A("Close", 2, "<", "Open", 1)>>],
  [name |-> "Bearish_Harami_Cross",
   conj |-> <<A("Open", 0, "<", "Close", 1), A("Close", 0, "<", "Open", 0),
              A("Open", 0, ">", "Close", 2), A("Close", 2, ">", "Open", 1)>>],
  [name |-> "Bullish_Engulfing_Pattern",
   conj |-> <<A("Open", 0, "<", "Close", 1), A("Close", 0, ">", "Close", 1)>>],
  [name |-> "Bearish_Engulfing_Pattern",
   conj |-> <<A("Open", 0, ">", "Close", 1), A("Close", 0, "<", "Close", 1)>>] >>

NPatterns == Len(Patterns)

PatternNames == {Patterns[k].name : k \in 1..NPatterns}

AtomColumns(a) == {a.x, a.y} \cup (IF a.xs = "" THEN {} ELSE {a.xs, a.ys})

\* Evaluating the comparison at row i raises KeyError.
AtomFaults(t, a, i) ==
  \/ ~(AtomColumns(a) \subseteq DOMAIN t)
  \/ i - a.dx < 0
  \/ i - a.dy < 0

AtomTrue(t, a, i) ==
  LET x0 == t[a.x][i - a.dx + 1]
      y0 == t[a.y][i - a.dy + 1]
      x == IF a.xs = "" THEN x0 ELSE RSub(x0, t[a.xs][i + 1])
      y == IF a.ys = "" THEN y0 ELSE RSub(y0, t[a.ys][i + 1])
  IN CASE a.op = ">" -> RGt(x, y)
       [] a.op = "<" -> RLt(x, y)
       [] a.op = "==" -> REq(x, y)

\* "T", "F", or "E" when a conjunct that is reached raises.
RECURSIVE EvalConj(_, _, _, _)
EvalConj(t, conj, i, m) ==
  IF m > Len(conj) THEN "T"
  ELSE IF AtomFaults(t, conj[m], i) THEN "E"
  ELSE IF ~AtomTrue(t, conj[m], i) THEN "F"
  ELSE EvalConj(t, conj, i, m + 1)

ChainLastMatch(t, i, k) ==
  LET hits == {q \in k..NPatterns : EvalConj(t, Patterns[q].conj, i, 1) = "T"}
  IN IF hits = {} THEN <<0, FALSE>>
     ELSE <<CHOOSE q \in hits : \A r \in hits : r <= q, FALSE>>

\* The if/elif chain at row i from branch k on: <<the branch taken (0 when
\* none is), whether a condition raised>>.
RECURSIVE Chain(_, _, _)
Chain(t, i, k) ==
  IF k > NPatterns THEN <<0, FALSE>>
  ELSE LET r == EvalConj(t, Patterns[k].conj, i, 1)
       IN IF r = "E" THEN <<0, TRUE>>
          ELSE IF r = "T" THEN <<k, FALSE>>
          ELSE Chain(t, i, k + 1)

\* for i in range(1, len(self.data)): <<the table, whether the loop raised>>;
\* the rows before a fault keep their flags.
RECURSIVE CandleLoop(_, _)
CandleLoop(t, i) ==
  IF i > Len(t["Date"]) - 1 THEN <<t, FALSE>>
  ELSE LET c == Chain(t, i, 1)
       IN IF c[2] THEN <<t, TRUE>>
          ELSE IF c[1] = 0 THEN CandleLoop(t, i + 1)
          ELSE LET name == Patterns[c[1]].name
               IN CandleLoop(SetCol(t, name, [t[name] EXCEPT ![i + 1] = R(1)]), i + 1)

add_Candlestick_Pattern_Analysis ==
  /\ last' = Call("add_Candlestick_Pattern_Analysis", 0)
  /\ LET t0 == [c \in DOMAIN data \cup PatternNames |->
                  IF c \in PatternNames THEN Const(NRows, R(0)) ELSE data[c]]
         run == CandleLoop(t0, 1)
     IN data' = run[1] /\ raised' = run[2]

(***************************************************************************)
(* Tables of candles: every table of at most Lookback + 1 rows (a row      *)
(* reads at most the Lookback rows before it) whose bars satisfy           *)
(* 1 <= Low <= Open, Close <= High <= MaxPrice.                            *)
(***************************************************************************)
Candles ==
  {b \in [{"Open", "High", "Low", "Close"} -> 1..MaxPrice] :
     /\ b["Low"] <= b["Open"] /\ b["Open"] <= b["High"]
     /\ b["Low"] <= b["Close"] /\ b["Close"] <= b["High"]}

CandleTable(bars) ==
  BarTable([i \in 1..Len(bars) |-> bars[i]["Open"]], [i \in 1..Len(bars) |-> bars[i]["High"]],
           [i \in 1..Len(bars) |-> bars[i]["Low"]], [i \in 1..Len(bars) |-> bars[i]["Close"]],
           Const(Len(bars), 1))

InitCandle ==
  /\ last = Call("get_data", 0)
  /\ raised = FALSE
  /\ calls = <<>>
  /\ \E n \in 0..(Lookback + 1) : \E bars \in [1..n -> Candles] :
       data = CandleTable(bars)

NextCandle == add_Candlestick_Pattern_Analysis /\ UNCHANGED calls

SpecCandle == InitCandle /\ [][NextCandle]_vars

(***************************************************************************)
(* C10: after add_Candlestick_Pattern_Analysis completes, on every row the *)
(* 22 flags are 0 or 1, at most one of them is 1, and one that is 1 is the *)
(* flag of the first predicate, in the order of the chain, whose condition *)
(* holds on that row; when no predicate holds all 22 flags are 0.          *)
(***************************************************************************)
CandlesDone == last.op = "add_Candlestick_Pattern_Analysis" /\ ~raised

\* The whole condition of branch k on row i: every row it reads exists and
\* every comparison is true.
Holds(k, i) ==
  \A m \in 1..Len(Patterns[k].conj) :
    /\ ~AtomFaults(data, Patterns[k].conj[m], i)
    /\ AtomTrue(data, Patterns[k].conj[m], i)

Flag(k, i) == Row(Patterns[k].name, i)

Alpha(span) == Norm(2, span + 1)

\* One row of the loop: st = <<weighted, old_wt>>.
EwmStep(st, cur, span) ==
  LET weighted == st[1]
      old_wt == RMul(st[2], RSub(R(1), Alpha(span)))
  IN IF ~IsNaN(weighted)
     THEN IF ~IsNaN(cur)
          THEN <<IF weighted # cur
                 THEN RDiv(RAdd(RMul(old_wt, weighted), cur), RAdd(old_wt, R(1)))
                 ELSE weighted,
                 RAdd(old_wt, R(1))>>
          ELSE <<weighted, old_wt>>
     ELSE IF ~IsNaN(cur) THEN <<cur, st[2]>> ELSE st

RECURSIVE EwmState(_, _, _)
EwmState(C, span, j) ==
  IF j = 1 THEN <<C[1], R(1)>> ELSE EwmStep(EwmState(C, span, j - 1), C[j], span)

EwmMean(C, span) == [j \in 1..Len(C) |-> EwmState(C, span, j)[1]]

ColSub(X, Y) == [j \in 1..Len(X) |-> RSub(X[j], Y[j])]

\* The exact value of Signal_Line on a third row has a denominator beyond
\* the integers of the model checker, so the method is modelled on tables of
\* at most MaxRowsEWM rows.
add_macd ==
  /\ NRows <= MaxRowsEWM
  /\ last' = Call("add_macd", 0)
  /\ IF Has("Close")
     THEN LET t1 == SetCol(data, "EMA_12", EwmMean(data["Close"], 12))
              t2 == SetCol(t1, "EMA_26", EwmMean(t1["Close"], 26))
              t3 == SetCol(t2, "MACD", ColSub(t2["EMA_12"], t2["EMA_26"]))
              t4 == SetCol(t3, "Signal_Line", EwmMean(t3["MACD"], 9))
          IN data' = t4 /\ raised' = FALSE
     ELSE raised' = TRUE /\ UNCHANGED data

(***************************************************************************)
(* Tables of closes for the exponential averages: every table of at most   *)
(* MaxRowsEWM rows over the prices 1..MaxPriceEWM.                         *)
(***************************************************************************)
InitMACD ==
  /\ last = Call("get_data", 0)
  /\ raised = FALSE
  /\ calls = <<>>
  /\ \E n \in 0..MaxRowsEWM : \E cl \in [1..n -> 1..MaxPriceEWM] :
       data = CloseTable(cl)

NextMACD == add_macd /\ UNCHANGED calls

SpecMACD == InitMACD /\ [][NextMACD]_vars

(***************************************************************************)
(* C2: the exponential averages written by add_macd (EMA_12 and EMA_26     *)
(* over Close, Signal_Line over MACD, spans 12, 26 and 9) follow the       *)
(* recursive rule R[0] = C[0] and, for every i > 0,                        *)
(* R[i] = a*C[i] + (1-a)*R[i-1] with a = 2/(s+1).                          *)
(***************************************************************************)
Recursive(r, c, span) ==
  /\ NRows > 0 => Row(r, 0) = Row(c, 0)
  /\ \A i \in 1..(NRows - 1) :
       Row(r, i) = RAdd(RMul(Alpha(span), Row(c, i)),
                        RMul(RSub(R(1), Alpha(span)), Row(r, i - 1)))

C2_EmaIsRecursive ==
  (last.op = "add_macd" /\ ~raised) =>
    /\ Recursive("EMA_12", "Close", 12)
    /\ Recursive("EMA_26", "Close", 26)
    /\ Recursive("Signal_Line", "MACD", 9)

(***************************************************************************)
(* C11: after add_Candlestick_Pattern_Analysis, every one of the 22        *)
(* pattern flags is 0 on rows 0, 1 and 2.                                  *)
(***************************************************************************)
C11_NoFlagBeforeLookback ==
  CandlesDone =>
    \A i \in Rows : i < Lookback => \A k \in 1..NPatterns : Flag(k, i) = R(0)

(***************************************************************************)
(* scale_column(col_name, period)                                          *)
(***************************************************************************)
ScaledName(c, p) == "scaled_" \o ToString(p) \o "_" \o c

\* Columns that hold no numbers: the timestamps and the text labels.
\* Series.rolling raises on them.
NotNumeric == {"Date"} \cup LabelColumns

\* rolling(period).max().shift(1) and rolling(period).min().shift(1)
TrailingHighNoShift(C, p) == RollingMax(C, p)

TrailingHigh(C, p) == Shift1(RollingMax(C, p))

TrailingLow(C, p) == Shift1(RollingMin(C, p))

\* (self.data[col_name] - low)/(high - low), row by row in floats: a zero
\* divisor gives an infinity, or NaN under a zero dividend.
Scaled(C, p) ==
  LET high == TrailingHigh(C, p)
      low == TrailingLow(C, p)
  IN [j \in 1..Len(C) |-> RDiv(RSub(C[j], low[j]), RSub(high[j], low[j]))]

\* The source column kept beside the scaled one.
DelColNone(t, c) == t

\* del self.data[col_name]
DelCol(t, c) == [x \in DOMAIN t \ {c} |-> t[x]]

\* The columns the method is called on: two of the bars and the timestamps.
ScaleArgs == {"Close", "Volume", "Date"}

\* The scaled values written over the source column.
scale_columnInPlace(c, p) ==
  /\ last' = Call("scale_column", <<c, p>>)
  /\ IF Has(c) /\ c \notin NotNumeric
     THEN /\ data' = SetCol(data, c, Scaled(data[c], p))
          /\ raised' = FALSE
     ELSE raised' = TRUE /\ UNCHANGED data

scale_column(c, p) ==
  /\ last' = Call("scale_column", <<c, p>>)
  /\ IF Has(c) /\ c \notin NotNumeric
     THEN /\ data' = DelCol(SetCol(data, ScaledName(c, p), Scaled(data[c], p)), c)
          /\ raised' = FALSE
     ELSE raised' = TRUE /\ UNCHANGED data

(***************************************************************************)
(* Tables for scaling: every table of at most MaxRowsScale rows whose      *)
(* closes are in 1..MaxPriceScale.                                        *)
(***************************************************************************)
InitScale ==
  /\ last = Call("get_data", 0)
  /\ raised = FALSE
  /\ calls = <<>>
  /\ \E n \in 0..MaxRowsScale : \E cl \in [1..n -> 1..MaxPriceScale] :
       data = CloseTable(cl)

NextScale == (\E c \in ScaleArgs : \E p \in 1..MaxPeriod : scale_column(c, p)) /\ UNCHANGED calls

SpecScale == InitScale /\ [][NextScale]_vars

(***************************************************************************)
(* C12: after scale_column(c, p) on a fully defined column c, every row    *)
(* i < p of scaled_p_c is undefined, and every row i >= p whose p prior    *)
(* rows i-p..i-1 have a maximum high different from their minimum low       *)
(* holds (c[i] - low)/(high - low).                                        *)
(***************************************************************************)
FullyDefined(C) == \A j \in 1..Len(C) : IsFinite(C[j])

PriorRows(i, p) == (i - p)..(i - 1)

PriorHigh(C, i, p) ==
  CHOOSE v \in {C[j + 1] : j \in PriorRows(i, p)} :
    \A j \in PriorRows(i, p) : ~RGt(C[j + 1], v)

PriorLow(C, i, p) ==
  CHOOSE v \in {C[j + 1] : j \in PriorRows(i, p)} :
    \A j \in PriorRows(i, p) : ~RLt(C[j + 1], v)

\* The step is a successful scale_column(c, p).
Scales(c, p) ==
  /\ last'.op = "scale_column" /\ last'.arg = <<c, p>> /\ ~raised'
  /\ Has(c)

C13_FlatWindowIsUndefined ==
  [][\A c \in ScaleArgs : \A p \in 1..MaxPeriod :
       (Scales(c, p) /\ FullyDefined(data[c])) =>
         \A i \in Rows :
           (i >= p /\ PriorHigh(data[c], i, p) = PriorLow(data[c], i, p)) =>
             IsNaN(data'[ScaledName(c, p)][i + 1])]_vars

(***************************************************************************)
(* C14: every defined value of a column produced by scale_column lies in   *)
(* the closed interval [0, 1].                                             *)
(***************************************************************************)
C14_ScaledWithinUnitInterval ==
  \A c \in ScaleArgs : \A p \in 1..MaxPeriod :
    Has(ScaledName(c, p)) =>
      \A i \in Rows :
        LET v == Row(ScaledName(c, p), i)
        IN IsFinite(v) => (~RLt(v, R(0)) /\ ~RGt(v, R(1)))

(***************************************************************************)
(* add_label                                                               *)
(***************************************************************************)
\* np.where(Close > Close.shift(1), 'Positive',
\*          np.where(Close < Close.shift(1), 'Negative', 'Neutral'))
LabelOf(close) ==
  LET prev == Shift1(close)
  IN [j \in 1..Len(close) |->
        IF RGt(close[j], prev[j]) THEN "Positive"
        ELSE IF RLt(close[j], prev[j]) THEN "Negative"
        ELSE "Neutral"]

add_label ==
  /\ last' = Call("add_label", 0)
  /\ IF Has("Close")
     THEN data' = SetCol(data, "Label", LabelOf(data["Close"])) /\ raised' = FALSE
     ELSE raised' = TRUE /\ UNCHANGED data

(***************************************************************************)
(* Tables for the labels: every table of at most MaxRowsLabel rows with    *)
(* closes in 1..MaxPrice, and the tables whose closes are 1, 2, .., n for  *)
(* n up to RampRows.                                                       *)
(***************************************************************************)
Ramp(n) == [i \in 1..n |-> i]

InitLabel ==
  /\ last = Call("get_data", 0)
  /\ raised = FALSE
  /\ calls = <<>>
  /\ \/ \E n \in 0..MaxRowsLabel : \E cl \in [1..n -> 1..MaxPrice] :
          data = CloseTable(cl)
     \/ \E n \in 1..RampRows : data = CloseTable(Ramp(n))

NextLabel == add_label /\ UNCHANGED calls

SpecLabel == InitLabel /\ [][NextLabel]_vars

(***************************************************************************)
(* C19: on a table of 25 bars whose closes are 1, 2, .., 25 in order,      *)
(* add_label marks rows 0..23 (every row except the last) 'Positive'.      *)
(***************************************************************************)
C19_RampAllButLastPositive ==
  (last.op = "add_label" /\ ~raised /\ data["Close"] = Ints(Ramp(25))) =>
    \A i \in 0..23 : Row("Label", i) = "Positive"

(***************************************************************************)
(* add_rsi                                                                 *)
(***************************************************************************)
\* Series.apply(lambda x: x if x > 0 else 0) and (lambda x: -x if x < 0 else 0):
\* a NaN fails the comparison and becomes 0.
GainOf(change) ==
  [j \in 1..Len(change) |-> IF RGt(change[j], R(0)) THEN change[j] ELSE R(0)]

LossOf(change) ==
  [j \in 1..Len(change) |-> IF RLt(change[j], R(0)) THEN RNeg(change[j]) ELSE R(0)]

ColDiv(X, Y) == [j \in 1..Len(X) |-> RDiv(X[j], Y[j])]

\* 100 - (100 / (1 + RS))
RsiFilled(rs) ==
  [j \in 1..Len(rs) |->
     IF IsNaN(rs[j]) THEN R(50)
     ELSE RSub(R(100), RDiv(R(100), RAdd(R(1), rs[j])))]

RsiOf(rs) ==
  [j \in 1..Len(rs) |-> RSub(R(100), RDiv(R(100), RAdd(R(1), rs[j])))]

add_rsi ==
  /\ last' = Call("add_rsi", 0)
  /\ IF Has("Close")
     THEN LET t1 == SetCol(data, "Change", ColSub(data["Close"], Shift1(data["Close"])))
              t2 == SetCol(t1, "Gain", GainOf(t1["Change"]))
              t3 == SetCol(t2, "Loss", LossOf(t2["Change"]))
              t4 == SetCol(t3, "Avg_Gain_14", RollingMean(t3["Gain"], RsiWindow))
              t5 == SetCol(t4, "Avg_Loss_14", RollingMean(t4["Loss"], RsiWindow))
              t6 == SetCol(t5, "RS", ColDiv(t5["Avg_Gain_14"], t5["Avg_Loss_14"]))
              t7 == SetCol(t6, "RSI", RsiOf(t6["RS"]))
          IN data' = t7 /\ raised' = FALSE
     ELSE raised' = TRUE /\ UNCHANGED data

(***************************************************************************)
(* add_relative_strength_index_wilder_smoothing                            *)
(***************************************************************************)
WilderCom == 14

\* ewm(com=c) has alpha = 1/(1 + c), the alpha of ewm(span=2c + 1).
ComSpan(com) == 2 * com + 1

\* Series.mask(cond, 0): 0 where the condition is true, the cell elsewhere
\* (an undefined cell compares false and stays undefined).
MaskNegative(change) ==
  [j \in 1..Len(change) |-> IF RLt(change[j], R(0)) THEN R(0) ELSE change[j]]

MaskPositive(change) ==
  [j \in 1..Len(change) |-> IF RGt(change[j], R(0)) THEN R(0) ELSE change[j]]

\* The averages are exact fractions; the method is modelled on tables of at
\* most MaxRowsEWM rows.
add_relative_strength_index_wilder_smoothing ==
  /\ NRows <= MaxRowsEWM
  /\ last' = Call("add_relative_strength_index_wilder_smoothing", 0)
  /\ IF Has("Close")
     THEN LET t1 == SetCol(data, "Change", ColSub(data["Close"], Shift1(data["Close"])))
              t2 == SetCol(t1, "Gain", MaskNegative(t1["Change"]))
              t3 == SetCol(t2, "Loss", MaskPositive(t2["Change"]))
              t4 == SetCol(t3, "Avg_Gain", EwmMean(t3["Gain"], ComSpan(WilderCom)))
              t5 == SetCol(t4, "Avg_Loss", EwmMean(t4["Loss"], ComSpan(WilderCom)))
              t6 == SetCol(t5, "RS", ColDiv(t5["Avg_Gain"], t5["Avg_Loss"]))
              t7 == SetCol(t6, "RSI", RsiOf(t6["RS"]))
          IN data' = t7 /\ raised' = FALSE
     ELSE raised' = TRUE /\ UNCHANGED data

(***************************************************************************)
(* Tables for the RSI: at most MaxRowsRSI rows, the closes at one price    *)
(* up to some row and at one price (the same, or another) from there on.   *)
(***************************************************************************)
StepClose(n, k, a, b) == [i \in 1..n |-> IF i < k THEN a ELSE b]

InitRSI ==
  /\ last = Call("get_data", 0)
  /\ raised = FALSE
  /\ calls = <<>>
  /\ \E n \in 0..MaxRowsRSI : \E k \in 1..n : \E a, b \in 1..MaxPrice :
       data = CloseTable(StepClose(n, k, a, b))

NextRSI ==
  \/ add_rsi /\ UNCHANGED calls
  \/ add_relative_strength_index_wilder_smoothing /\ UNCHANGED calls

SpecRSI == InitRSI /\ [][NextRSI]_vars

(***************************************************************************)
(* C20: on a table whose closes are all equal, of any length, add_rsi      *)
(* leaves RSI undefined on every row: on the rows with fewer than 14 rows  *)
(* of history and on the rows where the average gain and the average loss  *)
(* are both zero.                                                          *)
(***************************************************************************)
ConstantCloses == \A i \in Rows : Row("Close", i) = Row("Close", 0)

C20_ConstantClosesRsiUndefined ==
  (last.op = "add_rsi" /\ ~raised /\ ConstantCloses) =>
    \A i \in Rows : IsNaN(Row("RSI", i))

\* add_rsi has run on constant closes long enough for a row whose average
\* gain and average loss are both defined and zero.
C20_Witness ==
  /\ last.op = "add_rsi" /\ ~raised /\ ConstantCloses
  /\ NRows > RsiWindow
  /\ Row("Avg_Gain_14", NRows - 1) = R(0)
  /\ Row("Avg_Loss_14", NRows - 1) = R(0)
  /\ IsNaN(Row("Avg_Gain_14", RsiWindow - 2))
  /\ IsNaN(Row("RSI", NRows - 1))

(***************************************************************************)
(* C21: in add_rsi, on every row where the 14-row average loss is zero,    *)
(* RSI is the undefined value, whatever the average gain is, and no fault  *)
(* is raised.                                                              *)
(***************************************************************************)
C21_ZeroAverageLossRsiUndefined ==
  (last.op = "add_rsi" /\ Has("Close")) =>
    /\ ~raised
    /\ \A i \in Rows :
         Row("Avg_Loss_14", i) = R(0) => IsNaN(Row("RSI", i))

(***************************************************************************)
(* C30: whichever of add_rsi and                                           *)
(* add_relative_strength_index_wilder_smoothing ran last, every defined    *)
(* finite RSI lies in [0, 100], Loss is non-negative on every row and RS   *)
(* is non-negative wherever it is defined.                                 *)
(***************************************************************************)
RsiWritten ==
  /\ last.op \in {"add_rsi", "add_relative_strength_index_wilder_smoothing"}
  /\ ~raised

C30_RsiWithinBounds ==
  RsiWritten =>
    \A i \in Rows :
      /\ IsFinite(Row("RSI", i)) =>
           ~RLt(Row("RSI", i), R(0)) /\ ~RGt(Row("RSI", i), R(100))
      /\ ~RLt(Row("Loss", i), R(0))
      /\ ~RLt(Row("RS", i), R(0))

(***************************************************************************)
(* add_ADX                                                                 *)
(***************************************************************************)
\* Series.diff(1)
Diff1(C) == ColSub(C, Shift1(C))

\* self.data[['High', 'Low', 'Close']].max(axis=1)
RowMax3(X, Y, Z) == [j \in 1..Len(X) |-> PyMax(<<X[j], Y[j], Z[j]>>, 3)]

RAbs(x) == <<Abs(x[1]), x[2]>>

\* (PDM / TR) * 100
Percent(X, Y) == [j \in 1..Len(X) |-> RMul(RDiv(X[j], Y[j]), R(100))]

\* The four statements of the loop on row i (position j = i + 1).
AdxStep(t, adx, j) ==
  LET d == RAbs(RSub(t["PDI"][j], t["MDI"][j]))
      a1 == RMul(adx[j - 1], R(AdxPeriod - 1))
      a2 == RAdd(a1, d)
      a3 == RDiv(a2, R(AdxPeriod))
  IN [adx EXCEPT ![j] = RAdd(a3, RDiv(d, R(2)))]

\* for i in range(2, len(self.data))
RECURSIVE AdxLoop(_, _, _)
AdxLoop(t, adx, j) ==
  IF j > Len(adx) THEN adx ELSE AdxLoop(t, AdxStep(t, adx, j), j + 1)

\* A missing bar column raises KeyError where it is first read, after the
\* columns of the statements before it have been written.
add_ADX ==
  /\ last' = Call("add_ADX", 0)
  /\ IF ~Has("High") THEN raised' = TRUE /\ UNCHANGED data
     ELSE LET t1 == SetCol(data, "PDM", Diff1(data["High"]))
          IN IF ~Has("Low") THEN raised' = TRUE /\ data' = t1
             ELSE LET t2 == SetCol(t1, "MDM", Diff1(t1["Low"]))
                  IN IF ~Has("Close") THEN raised' = TRUE /\ data' = t2
                     ELSE LET t3 == SetCol(t2, "TR", Diff1(RowMax3(t2["High"], t2["Low"], t2["Close"])))
                              t4 == SetCol(t3, "PDI", Percent(t3["PDM"], t3["TR"]))
                              t5 == SetCol(t4, "MDI", Percent(t4["MDM"], t4["TR"]))
                              t6 == SetCol(t5, "ADX", AdxLoop(t5, Const(NRows, R(0)), 3))
                          IN raised' = FALSE /\ data' = t6

(***************************************************************************)
(* add_parabolic_sar_adx_combo                                             *)
(***************************************************************************)
add_parabolic_sar_adx_combo ==
  /\ last' = Call("add_parabolic_sar_adx_combo", 0)
  /\ IF Has("Close")
     THEN LET t1 == SetCol(data, "Parabolic_SAR", RollingMean(Shift1(data["Close"]), 2))
              t2 == SetCol(t1, "ADX", RollingMean(t1["Close"], 3))
          IN data' = t2 /\ raised' = FALSE
     ELSE raised' = TRUE /\ UNCHANGED data

(***************************************************************************)
(* Tables for the ADX: every table of at most MaxRowsADX candles.          *)
(***************************************************************************)
InitADX ==
  /\ last = Call("get_data", 0)
  /\ raised = FALSE
  /\ calls = <<>>
  /\ \E n \in 0..MaxRowsADX : \E bars \in [1..n -> Candles] :
       data = CandleTable(bars)

NextADX ==
  \/ add_ADX /\ UNCHANGED calls
  \/ add_parabolic_sar_adx_combo /\ UNCHANGED calls

SpecADX == InitADX /\ [][NextADX]_vars

(***************************************************************************)
(* C17: a derived column written by one indicator function is not changed  *)
(* by a later call to a different function; in particular the ADX column,  *)
(* once written, keeps its values under a call to another function.        *)
(***************************************************************************)
C17_AdxNotOverwritten ==
  [][(Has("ADX") /\ ~raised /\ last'.op # last.op) =>
       data'["ADX"] = data["ADX"]]_vars

(***************************************************************************)
(* C28: in add_ADX a single degenerate row does not interrupt the rest of  *)
(* the column: if PDI[i] or MDI[i] is undefined or infinite at one row     *)
(* i >= 2 while PDI and MDI are finite on every later row, then ADX[j] is  *)
(* defined and finite for every row j > i.                                 *)
(***************************************************************************)
Degenerate(i) == ~IsFinite(Row("PDI", i)) \/ ~IsFinite(Row("MDI", i))

C28_DegenerateRowDoesNotSpread ==
  (last.op = "add_ADX" /\ ~raised) =>
    \A i \in Rows :
      (/\ i >= 2
       /\ Degenerate(i)
       /\ \A j \in Rows : j > i => ~Degenerate(j))
      => \A j \in Rows : j > i => IsFinite(Row("ADX", j))

(***************************************************************************)
(* The range-normalised columns: a numerator divided by High - Low.        *)
(***************************************************************************)
ColAdd(X, Y) == [j \in 1..Len(X) |-> RAdd(X[j], Y[j])]

ColMul(X, Y) == [j \in 1..Len(X) |-> RMul(X[j], Y[j])]

Twice(X) == [j \in 1..Len(X) |-> RMul(R(2), X[j])]

Range(t) == ColSub(t["High"], t["Low"])

HasBars(cols) == cols \subseteq DOMAIN data

\* (2*Close - Low - High) / (High - Low) * Volume
add_Accumulation_Distribution ==
  /\ last' = Call("add_Accumulation_Distribution", 0)
  /\ IF HasBars({"Close", "Low", "High", "Volume"})
     THEN /\ data' = SetCol(data, "Accumulation_Distribution",
                       ColMul(ColDiv(ColSub(ColSub(Twice(data["Close"]), data["Low"]),
                                            data["High"]),
                                     Range(data)),
                              data["Volume"]))
          /\ raised' = FALSE
     ELSE raised' = TRUE /\ UNCHANGED data

\* Money_Flow_Multiplier, Money_Flow_Volume and their running sum ADL; a
\* missing Volume faults after the first column has been written.
add_accumulation_distribution ==
  /\ last' = Call("add_accumulation_distribution", 0)
  /\ IF ~HasBars({"Close", "High", "Low"}) THEN raised' = TRUE /\ UNCHANGED data
     ELSE LET t1 == SetCol(data, "Money_Flow_Multiplier",
                      ColDiv(ColSub(ColSub(Twice(data["Close"]), data["High"]),
                                    data["Low"]),
                             Range(data)))
          IN IF ~Has("Volume") THEN raised' = TRUE /\ data' = t1
             ELSE LET mfv == ColMul(t1["Money_Flow_Multiplier"], t1["Volume"])
                      t2 == SetCol(t1, "Money_Flow_Volume", mfv)
                      t3 == SetCol(t2, "ADL", CumSum(mfv))
                  IN raised' = FALSE /\ data' = t3

\* ((High - Low) - (High.shift(1) - Low.shift(1))) / (High - Low)
add_money_flow_index ==
  /\ last' = Call("add_money_flow_index", 0)
  /\ IF HasBars({"High", "Low"})
     THEN /\ data' = SetCol(data, "Money_Flow_Index",
                       ColDiv(ColSub(Range(data),
                                     ColSub(Shift1(data["High"]), Shift1(data["Low"]))),
                              Range(data)))
          /\ raised' = FALSE
     ELSE raised' = TRUE /\ UNCHANGED data

\* (High - High.shift(1)) / (High - Low)
add_average_directional_movement_index ==
  /\ last' = Call("add_average_directional_movement_index", 0)
  /\ IF HasBars({"High", "Low"})
     THEN /\ data' = SetCol(data, "Average_Directional_Movement_Index",
                       ColDiv(ColSub(data["High"], Shift1(data["High"])), Range(data)))
          /\ raised' = FALSE
     ELSE raised' = TRUE /\ UNCHANGED data

\* The second definition of add_swing_index, the one the class keeps:
\* (High - Low.shift(1)) / (High - Low)
add_swing_index ==
  /\ last' = Call("add_swing_index", 0)
  /\ IF HasBars({"High", "Low"})
     THEN /\ data' = SetCol(data, "Swing_Index",
                       ColDiv(ColSub(data["High"], Shift1(data["Low"])), Range(data)))
          /\ raised' = FALSE
     ELSE raised' = TRUE /\ UNCHANGED data

(***************************************************************************)
(* Tables for the range-normalised columns: every table of at most         *)
(* MaxRowsRange candles.                                                   *)
(***************************************************************************)
InitRange ==
  /\ last = Call("get_data", 0)
  /\ raised = FALSE
  /\ calls = <<>>
  /\ \E n \in 0..MaxRowsRange : \E bars \in [1..n -> Candles] :
       data = CandleTable(bars)

NextRange ==
  \/ add_Accumulation_Distribution /\ UNCHANGED calls
  \/ add_accumulation_distribution /\ UNCHANGED calls
  \/ add_money_flow_index /\ UNCHANGED calls
  \/ add_average_directional_movement_index /\ UNCHANGED calls
  \/ add_swing_index /\ UNCHANGED calls

SpecRange == InitRange /\ [][NextRange]_vars

(***************************************************************************)
(* C22: on a bar with High = Low, each column computed with the divisor    *)
(* High - Low (Money_Flow_Multiplier, Accumulation_Distribution,           *)
(* Money_Flow_Index, Average_Directional_Movement_Index, Swing_Index)      *)
(* holds the undefined value, and the call does not raise.                 *)
(***************************************************************************)
RangeColumns ==
  {"Money_Flow_Multiplier", "Accumulation_Distribution", "Money_Flow_Index",
   "Average_Directional_Movement_Index", "Swing_Index"}

C22_FlatBarIsUndefined ==
  /\ raised = FALSE
  /\ \A c \in RangeColumns : Has(c) =>
       \A i \in Rows : Row("High", i) = Row("Low", i) => IsNaN(Row(c, i))

(***************************************************************************)
(* C23: add_rolling_columns(n) on a table of fewer rows than the window    *)
(* (0 < N < n) does not raise; the table keeps its N rows and the extremum *)
(* and lag columns are undefined on every row.                             *)
(***************************************************************************)
C23_ShortTableDoesNotRaise ==
  (last.op = "add_rolling_columns" /\ 0 < NRows /\ NRows < last.arg) =>
    /\ ~raised
    /\ \A c \in ForwardColumns(last.arg) :
         Has(c) /\ \A i \in Rows : IsNaN(Row(c, i))

(***************************************************************************)
(* add_rate_of_change                                                      *)
(***************************************************************************)
RocWindows == {5, 10, 20, 50, 100, 200}

RocName(k) == "Rate_of_Change_" \o ToString(k)

\* Series.pct_change(k): C[i] / C[i-k] - 1, NaN on the first k rows.
PctChange(C, k) ==
  [j \in 1..Len(C) |->
     IF j - k >= 1 THEN RSub(RDiv(C[j], C[j - k]), R(1)) ELSE NaN]

\* Series.fillna(0)
FillNa0(C) == [j \in 1..Len(C) |-> IF IsNaN(C[j]) THEN R(0) ELSE C[j]]

RocOf(C, k) == FillNa0(PctChange(C, k))

add_rate_of_change ==
  /\ last' = Call("add_rate_of_change", 0)
  /\ IF Has("Close")
     THEN /\ data' = [c \in DOMAIN data \cup {RocName(k) : k \in RocWindows} |->
                        IF \E k \in RocWindows : c = RocName(k)
                        THEN RocOf(data["Close"],
                                   CHOOSE k \in RocWindows : c = RocName(k))
                        ELSE data[c]]
          /\ raised' = FALSE
     ELSE raised' = TRUE /\ UNCHANGED data

(***************************************************************************)
(* add_mass_index                                                          *)
(***************************************************************************)
MassShort == 9

MassLong == 25

\* Series.max() and Series.min() over positions lo..hi: NaN cells are skipped.
SeriesMax(C, lo, hi) ==
  LET S == {k \in lo..hi : ~IsNaN(C[k])}
  IN IF S = {} THEN NaN
     ELSE C[CHOOSE k \in S : \A m \in S : ~RGt(C[m], C[k])]

SeriesMin(C, lo, hi) ==
  LET S == {k \in lo..hi : ~IsNaN(C[k])}
  IN IF S = {} THEN NaN
     ELSE C[CHOOSE k \in S : \A m \in S : ~RLt(C[m], C[k])]

\* The column starts as 0 on every row; the loop writes rows w..N-1 from the
\* label slice .loc[i-w:i], which holds the w + 1 rows i-w..i.
MassIndex(H, L, w) ==
  [j \in 1..Len(H) |->
     IF j - 1 >= w
     THEN LET range == RSub(SeriesMax(H, j - w, j), SeriesMin(L, j - w, j))
          IN RDiv(range, range)
     ELSE R(0)]

\* The two columns are set to 0 before the loops read High and Low.
add_mass_index ==
  /\ last' = Call("add_mass_index", 0)
  /\ LET t1 == SetCol(data, "Mass_Index_9", Const(NRows, R(0)))
         t2 == SetCol(t1, "Mass_Index_25", Const(NRows, R(0)))
     IN IF NRows > MassShort /\ ~(Has("High") /\ Has("Low"))
        THEN raised' = TRUE /\ data' = t2
        ELSE /\ raised' = FALSE
             /\ IF NRows > MassShort
                THEN LET t3 == SetCol(t2, "Mass_Index_9",
                                      MassIndex(t2["High"], t2["Low"], MassShort))
                     IN data' = SetCol(t3, "Mass_Index_25",
                                       MassIndex(t3["High"], t3["Low"], MassLong))
                ELSE data' = t2

(***************************************************************************)
(* Tables with a history: every table of at most MaxRowsHist rows whose    *)
(* open, high and close are one series over 1..MaxPrice and whose low is   *)
(* 1.  add_ADX is run on the tables of at most MaxRowsADX rows.            *)
(***************************************************************************)
HistTable(hi) == BarTable(hi, hi, Const(Len(hi), 1), hi, Const(Len(hi), 1))

InitHist ==
  /\ last = Call("get_data", 0)
  /\ raised = FALSE
  /\ calls = <<>>
  /\ \E n \in 0..MaxRowsHist : \E hi \in [1..n -> 1..MaxPrice] :
       data = HistTable(hi)

NextHist ==
  \/ add_rate_of_change /\ UNCHANGED calls
  \/ add_mass_index /\ UNCHANGED calls
  \/ NRows <= MaxRowsADX /\ add_ADX /\ UNCHANGED calls

SpecHist == InitHist /\ [][NextHist]_vars

(***************************************************************************)
(* C24: rows with insufficient history hold the undefined marker, never    *)
(* zero: Rate_of_Change_k[i] is undefined for i < k, Mass_Index_9[i] for   *)
(* i < 9, Mass_Index_25[i] for i < 25, and the ADX of add_ADX on rows 0    *)
(* and 1.                                                                  *)
(***************************************************************************)
UndefinedBefore(c, k) ==
  Has(c) => \A i \in Rows : i < k => IsNaN(Row(c, i))

C24_ShortHistoryIsUndefined ==
  /\ \A k \in RocWindows : UndefinedBefore(RocName(k), k)
  /\ UndefinedBefore("Mass_Index_9", MassShort)
  /\ UndefinedBefore("Mass_Index_25", MassLong)
  /\ UndefinedBefore("ADX", 2)

(***************************************************************************)
(* C25: add_Candlestick_Pattern_Analysis runs to completion without        *)
(* raising on every table, whatever its number of rows and its bars; rows  *)
(* 1 and 2 never read a row before row 0.                                  *)
(***************************************************************************)
C25_CandlesNeverRaise ==
  last.op = "add_Candlestick_Pattern_Analysis" => ~raised

(***************************************************************************)
(* C29: the Harami flag is reachable: the table at hand (the empty one     *)
(* included) can be continued by candles so that                           *)
(* add_Candlestick_Pattern_Analysis sets Harami[i] = 1 on some row i.      *)
(***************************************************************************)
Continued(bars) ==
  [c \in BarColumns |-> data[c] \o CandleTable(bars)[c]]

HaramiSetOn(t) ==
  LET t0 == [c \in DOMAIN t \cup PatternNames |->
               IF c \in PatternNames THEN Const(Len(t["Date"]), R(0)) ELSE t[c]]
      run == CandleLoop(t0, 1)
  IN \E j \in 1..Len(t["Date"]) : run[1]["Harami"][j] = R(1)

C29_HaramiReachable ==
  \E n \in 0..(Lookback + 1) : \E bars \in [1..n -> Candles] :
    HaramiSetOn(Continued(bars))

(***************************************************************************)
(* add_fibonacci                                                           *)
(***************************************************************************)
FibLevels ==
  [name \in {"Fibonacci_0.236", "Fibonacci_0.382", "Fibonacci_0.50",
             "Fibonacci_0.618", "Fibonacci_1.00", "Fibonacci_1.27",
             "Fibonacci_1.618"} |->
     CASE name = "Fibonacci_0.236" -> Norm(236, 1000)
       [] name = "Fibonacci_0.382" -> Norm(382, 1000)
       [] name = "Fibonacci_0.50" -> Norm(50, 100)
       [] name = "Fibonacci_0.618" -> Norm(618, 1000)
       [] name = "Fibonacci_1.00" -> Norm(100, 100)
       [] name = "Fibonacci_1.27" -> Norm(127, 100)
       [] name = "Fibonacci_1.618" -> Norm(1618, 1000)]

\* self.data['Close'].shift(0) * level: a shift by no row is the column.
FibOf(C, level) == [j \in 1..Len(C) |-> RMul(C[j], level)]

add_fibonacci ==
  /\ last' = Call("add_fibonacci", 0)
  /\ IF Has("Close")
     THEN /\ data' = [c \in DOMAIN data \cup DOMAIN FibLevels |->
                        IF c \in DOMAIN FibLevels
                        THEN FibOf(data["Close"], FibLevels[c])
                        ELSE data[c]]
          /\ raised' = FALSE
     ELSE raised' = TRUE /\ UNCHANGED data

(***************************************************************************)
(* add_coppock_curve                                                       *)
(***************************************************************************)
CoppockWindow == 11

\* The list holds abs(Close[i] - Close[i-1]) for i = 1..N-1, so its entry k
\* (from 0) is the move from row k to row k + 1.  pd.Series(list) is indexed
\* 0..N-2 and the assignment aligns on the index: row k of the table gets
\* entry k of the rolling mean and the last row, which has no entry, is
\* undefined.
CoppockOf(C) ==
  LET diffs == [k \in 1..(Len(C) - 1) |-> RAbs(RSub(C[k + 1], C[k]))]
      mean == RollingMean(diffs, CoppockWindow)
  IN [j \in 1..Len(C) |-> IF j <= Len(mean) THEN mean[j] ELSE NaN]

add_coppock_curve ==
  /\ last' = Call("add_coppock_curve", 0)
  /\ IF Has("Close")
     THEN data' = SetCol(data, "Coppock_Curve", CoppockOf(data["Close"])) /\ raised' = FALSE
     ELSE raised' = TRUE /\ UNCHANGED data

(***************************************************************************)
(* Tables long enough for the Coppock curve: every table of at most        *)
(* MaxRowsAhead rows with closes in 1..MaxPrice.                           *)
(***************************************************************************)
InitAhead ==
  /\ last = Call("get_data", 0)
  /\ raised = FALSE
  /\ calls = <<>>
  /\ \E n \in 0..MaxRowsAhead : \E cl \in [1..n -> 1..MaxPrice] :
       data = CloseTable(cl)

NextAhead ==
  \/ add_coppock_curve /\ UNCHANGED calls
  \/ add_fibonacci /\ UNCHANGED calls
  \/ add_label /\ UNCHANGED calls

SpecAhead == InitAhead /\ [][NextAhead]_vars

(***************************************************************************)
(* C27: no look-ahead.  For any two tables that agree on the bars of rows  *)
(* 0..i a column written by an indicator function has the same value at    *)
(* row i; the table cut after row i is one of them, so the value at row i  *)
(* is the one the function gives on the rows 0..i alone.  Stated for the   *)
(* columns of add_coppock_curve, add_fibonacci and add_label.              *)
(***************************************************************************)
UpTo(i) == SubSeq(data["Close"], 1, i + 1)

C27_NoLookAhead ==
  \A i \in Rows :
    /\ Has("Coppock_Curve") =>
         Row("Coppock_Curve", i) = CoppockOf(UpTo(i))[i + 1]
    /\ Has("Label") => Row("Label", i) = LabelOf(UpTo(i))[i + 1]
    /\ \A c \in DOMAIN FibLevels :
         Has(c) => Row(c, i) = FibOf(UpTo(i), FibLevels[c])[i + 1]

(***************************************************************************)
(* add_chaikin_oscillator                                                  *)
(***************************************************************************)
ChaikinWindow == 10

\* ADL is read first: without it the method raises KeyError before it has
\* written a column.
add_chaikin_oscillator ==
  /\ last' = Call("add_chaikin_oscillator", 0)
  /\ IF Has("ADL")
     THEN LET t1 == SetCol(data, "ADL_10", RollingMean(data["ADL"], ChaikinWindow))
              t2 == SetCol(t1, "Chaikin_Osc", ColSub(t1["ADL_10"], t1["ADL"]))
          IN data' = t2 /\ raised' = FALSE
     ELSE raised' = TRUE /\ UNCHANGED data

(***************************************************************************)
(* Sequences of calls around the ADL column, from every table of at most   *)
(* MaxRowsDeps candles: the writer of ADL, its reader, the scaling that    *)
(* removes it, and two methods that read bar columns only.                 *)
(***************************************************************************)
InitDeps ==
  /\ last = Call("get_data", 0)
  /\ raised = FALSE
  /\ calls = <<>>
  /\ \E n \in 0..MaxRowsDeps : \E bars \in [1..n -> Candles] :
       data = CandleTable(bars)

NextDeps ==
  \/ add_accumulation_distribution /\ UNCHANGED calls
  \/ add_chaikin_oscillator /\ UNCHANGED calls
  \/ \E p \in 1..MaxPeriod : scale_column("ADL", p) /\ UNCHANGED calls
  \/ add_Candlestick_Pattern_Analysis /\ UNCHANGED calls
  \/ add_label /\ UNCHANGED calls

SpecDeps == InitDeps /\ [][NextDeps]_vars

(***************************************************************************)
(* C26: add_chaikin_oscillator succeeds exactly when the ADL column        *)
(* exists, and otherwise raises and leaves the table unchanged; every      *)
(* indicator function other than add_chaikin_oscillator,                   *)
(* add_rsi_divergence, add_bollinger_band_width and                        *)
(* add_elder_impulse_system succeeds when it is the first call on a table  *)
(* of bar columns.                                                         *)
(***************************************************************************)
Dependent ==
  {"add_chaikin_oscillator", "add_rsi_divergence", "add_bollinger_band_width",
   "add_elder_impulse_system"}

ChaikinNeedsADL ==
  last'.op = "add_chaikin_oscillator" =>
    /\ raised' <=> ~Has("ADL")
    /\ raised' => data' = data

FirstCallSucceeds ==
  (last.op = "get_data" /\ last'.op \notin Dependent \cup {"scale_column"}) =>
    ~raised'

C26_NamedDependenciesOnly == [][ChaikinNeedsADL /\ FirstCallSucceeds]_vars

(***************************************************************************)
(* The whole program: get_data leaves a table of bars, and the indicator   *)
(* methods are then called in any order, any number of times.              *)
(***************************************************************************)
Init ==
  /\ last = Call("get_data", 0)
  /\ raised = FALSE
  /\ calls = <<>>
  /\ \E n \in 0..MaxRows : \E cl \in [1..n -> 1..MaxPrice] :
       data = CloseTable(cl)

Next ==
  \/ add_moving_averages /\ Tick
  \/ (\E n \in 1..MaxForward : add_rolling_columns(n)) /\ Tick
  \/ (\E c \in ScaleArgs : \E p \in 1..MaxPeriod : scale_column(c, p)) /\ Tick
  \/ add_macd /\ Tick
  \/ add_rsi /\ Tick
  \/ add_label /\ Tick
  \/ add_on_balance_volume /\ Tick
  \/ add_OBV /\ Tick
  \/ add_Candlestick_Pattern_Analysis /\ Tick
  \/ add_ADX /\ Tick
  \/ add_parabolic_sar_adx_combo /\ Tick

Spec == Init /\ [][Next]_vars

(***************************************************************************)
(* C15: a successful scale_column(c, p) removes column c, adds exactly the *)
(* column 'scaled_<p>_<c>', and leaves the row count and the values of     *)
(* every other column unchanged; no other operation removes a column.      *)
(***************************************************************************)
SameRows == \A x \in DOMAIN data' : Len(data'[x]) = NRows

C15_ScaleReplacesColumn ==
  [][/\ (last'.op = "scale_column" /\ ~raised') =>
          LET c == last'.arg[1]
              s == ScaledName(last'.arg[1], last'.arg[2])
          IN /\ Has(c)
             /\ DOMAIN data' = (DOMAIN data \ {c}) \cup {s}
             /\ \A x \in DOMAIN data' \ {s} : data'[x] = data[x]
             /\ SameRows
     /\ (\E x \in DOMAIN data : x \notin DOMAIN data') =>
          (last'.op = "scale_column" /\ ~raised')]_vars

\* Close has been scaled away in a table that already held a derived column.
C15_Witness ==
  /\ last.op = "scale_column" /\ ~raised /\ last.arg[1] = "Close"
  /\ ~Has("Close")
  /\ Has(ScaledName("Close", last.arg[2]))
  /\ Has("Label")
  /\ NRows > 0

(***************************************************************************)
(* C16: over any sequence of add_* calls, failing ones included, the bar   *)
(* columns Open, High, Low, Close, Volume and the timestamps keep their    *)
(* values and the number of rows is unchanged.                             *)
(***************************************************************************)
C16_BarsUntouched ==
  [][last'.op # "scale_column" =>
       /\ \A c \in BarColumns : Has(c) => (c \in DOMAIN data' /\ data'[c] = data[c])
       /\ SameRows]_vars

(***************************************************************************)
(* C18: for every indicator function and every table on which a first     *)
(* invocation succeeds, a second invocation with the same parameters       *)
(* immediately afterwards also succeeds and writes the same values.        *)
(***************************************************************************)
\* The step repeats the call before it, which had succeeded.
Repeats == ~raised /\ last'.op = last.op /\ last'.arg = last.arg

====
